---------------------------- MODULE Spec2Model ----------------------------
(***************************************************************************)
(* FundAnalysisProcessor (src/fund_analysis_processor.py) as a state       *)
(* machine: the processor object's fields (df, pivot_tables), the input    *)
(* file it was constructed on, the output artifact, and the outcome of the *)
(* last call.  One action per public method.                               *)
(*                                                                         *)
(* Numbers are IEEE-like values over exact rationals: <<n, d>> with d > 0  *)
(* in lowest terms is the number n/d, <<0, 0>> is NaN (pandas' null) and   *)
(* <<1, 0>>, <<-1, 0>> are +inf, -inf.  Rounding of binary floating point  *)
(* is not modelled.                                                        *)
(***************************************************************************)
EXTENDS Integers, Sequences, FiniteSets, TLC

VARIABLES
    file,          \* the table stored in the input file (input_file_path)
    df,            \* self.df
    pivot_tables,  \* self.pivot_tables
    output,        \* the artifact at output_file_path
    result,        \* how the last call ended: returned, or the exception raised
    derived        \* history: calculate_derived_columns calls completed on
                   \* the table now in self.df (saturating at MaxDerived)

vars == <<file, df, pivot_tables, output, result, derived>>

-----------------------------------------------------------------------------
(* Bounds of the model.                                                    *)

\* rows of an input file in the pipeline family (Spec)
MaxRows == 2
\* rows of an input file in the derivation family (SpecDerive)
MaxRowsDerive == 3
\* rows of an input file in the aggregation family (SpecPivot)
MaxRowsPivot == 5
\* the count of derivations of one table saturates here
MaxDerived == 3

-----------------------------------------------------------------------------
(* Numbers.                                                                *)

NaN == <<0, 0>>
PosInf == <<1, 0>>
NegInf == <<-1, 0>>
Zero == <<0, 1>>
One == <<1, 1>>

Abs(n) == IF n < 0 THEN -n ELSE n

RECURSIVE GCD(_, _)
GCD(a, b) == IF b = 0 THEN a ELSE GCD(b, a % b)

\* the number n/d (d # 0) in lowest terms with a positive denominator
Rat(n, d) ==
    LET g == GCD(Abs(n), Abs(d))
        s == IF d < 0 THEN -1 ELSE 1
    IN  <<(s * n) \div g, (s * d) \div g>>

IsNaN(x) == x = NaN
NotNa(x) == x # NaN
IsFinite(x) == x[2] > 0
Sign(x) == IF x[1] > 0 THEN 1 ELSE IF x[1] < 0 THEN -1 ELSE 0

\* float addition: NaN propagates, inf + (-inf) is NaN
Add(x, y) ==
    IF IsNaN(x) \/ IsNaN(y) THEN NaN
    ELSE IF IsFinite(x) /\ IsFinite(y)
         THEN Rat(x[1] * y[2] + y[1] * x[2], x[2] * y[2])
    ELSE IF IsFinite(x) THEN y
    ELSE IF IsFinite(y) THEN x
    ELSE IF x = y THEN x ELSE NaN

Neg(x) == <<-x[1], x[2]>>

Sub(x, y) == Add(x, Neg(y))

\* float multiplication: NaN propagates, 0 * inf is NaN
Mul(x, y) ==
    IF IsNaN(x) \/ IsNaN(y) THEN NaN
    ELSE IF IsFinite(x) /\ IsFinite(y) THEN Rat(x[1] * y[1], x[2] * y[2])
    ELSE IF Sign(x) * Sign(y) = 0 THEN NaN
    ELSE <<Sign(x) * Sign(y), 0>>

\* float division as numpy/pandas perform it on a float column: it never
\* raises; x/0 is +-inf, 0/0 is NaN
Div(x, y) ==
    IF IsNaN(x) \/ IsNaN(y) THEN NaN
    ELSE IF IsFinite(x) /\ IsFinite(y)
         THEN IF y[1] # 0 THEN Rat(x[1] * y[2], x[2] * y[1])
              ELSE IF x[1] = 0 THEN NaN ELSE <<Sign(x), 0>>
    ELSE IF IsFinite(y) THEN <<Sign(x) * (IF y[1] < 0 THEN -1 ELSE 1), 0>>
    ELSE IF IsFinite(x) THEN Zero
    ELSE NaN

AbsNum(x) == <<Abs(x[1]), x[2]>>

\* x > y on non-NaN values (a comparison with NaN is False)
Gt(x, y) ==
    IF IsNaN(x) \/ IsNaN(y) THEN FALSE
    ELSE IF IsFinite(x) /\ IsFinite(y) THEN x[1] * y[2] > y[1] * x[2]
    ELSE IF IsFinite(x) THEN y = NegInf
    ELSE IF IsFinite(y) THEN x = PosInf
    ELSE x = PosInf /\ y = NegInf

\* Series.fillna(v)
FillNa(x, v) == IF IsNaN(x) THEN v ELSE x

-----------------------------------------------------------------------------
(* Columns and tables.                                                     *)

REQUIRED_COLUMNS ==
    { "Scheme Code", "Scheme Name", "Month", "Month End", "Instrument Name",
      "Holding (%)", "Instrument Sector", "Instrument SEBI Mcap",
      "Instrument SEBI Mcap Type", "NSE Symbol", "Price" }

CALCULATED_COLUMNS ==
    { "Start Price", "Monthly Stock Return%", "Start wt%",
      "Stock Monthly Contribution %" }

\* a missing string cell (NaN in an object column) and a missing date (NaT)
NoStr == ""
NaT == 0

\* A row carries the cells of the columns whose values the methods read or
\* write.  The cells of a column the table does not have are null.
MkRow(nm, mo, me, hold, sec, mcap, pr, contrib) ==
    [ name |-> nm, month |-> mo, monthEnd |-> me, holding |-> hold,
      sector |-> sec, mcapType |-> mcap, price |-> pr,
      startPrice |-> NaN, ret |-> NaN, startWt |-> NaN, contrib |-> contrib ]

Table(cols, rows) == [cols |-> cols, rows |-> rows]

\* self.df is None / self.pivot_tables is {} / nothing written: the empty
\* sequence; otherwise a one-element sequence holding the value
None == <<>>
Some(v) == <<v>>

RECURSIVE SeqsUpTo(_, _)
SeqsUpTo(S, n) ==
    IF n = 0 THEN {<<>>}
    ELSE LET shorter == SeqsUpTo(S, n - 1)
         IN  shorter \cup {Append(s, x) : s \in {t \in shorter : Len(t) = n - 1}, x \in S}

-----------------------------------------------------------------------------
(* load_data                                                               *)

\* native ordering of the instrument names of the model; a null name sorts
\* last (sort_values' na_position='last')
NameRank(nm) == IF nm = "A" THEN 1 ELSE IF nm = "B" THEN 2 ELSE 3

\* key comparison of sort_values(['Instrument Name', 'Month'])
KeyLE(a, b) ==
    \/ NameRank(a.name) < NameRank(b.name)
    \/ NameRank(a.name) = NameRank(b.name) /\ a.month <= b.month

\* insert r after every row whose key is <= r's key (stable)
RECURSIVE InsertSorted(_, _)
InsertSorted(s, r) ==
    IF s = <<>> THEN <<r>>
    ELSE IF KeyLE(s[1], r) THEN <<s[1]>> \o InsertSorted(Tail(s), r)
    ELSE <<r>> \o s

RECURSIVE SortRows(_)
SortRows(s) ==
    IF s = <<>> THEN <<>>
    ELSE InsertSorted(SortRows(SubSeq(s, 1, Len(s) - 1)), s[Len(s)])

MissingColumns(t) == REQUIRED_COLUMNS \ t.cols

Ok(op) == [op |-> op, kind |-> "ok", msg |-> "", missing |-> {}, found |-> {}]
Raised(op, kind, msg) ==
    [op |-> op, kind |-> kind, msg |-> msg, missing |-> {}, found |-> {}]

\* mutant: only one of the missing columns reported
ValidateColumnsErrorFirstOnly(t) ==
    [ op |-> "load_data", kind |-> "ValueError",
      msg |-> "Missing required columns",
      missing |-> {CHOOSE c \in MissingColumns(t) : TRUE}, found |-> t.cols ]

\* the ValueError _validate_columns raises
ValidateColumnsError(t) ==
    [ op |-> "load_data", kind |-> "ValueError",
      msg |-> "Missing required columns",
      missing |-> MissingColumns(t), found |-> t.cols ]

LoadData ==
    /\ \/ /\ file.rows = <<>>
          /\ df' = Some(file)
          /\ result' = Raised("load_data", "ValueError", "Input Excel file is empty")
       \/ /\ file.rows # <<>>
          /\ MissingColumns(file) # {}
          /\ df' = Some(file)
          /\ result' = ValidateColumnsError(file)
       \/ /\ file.rows # <<>>
          /\ MissingColumns(file) = {}
          /\ df' = Some(Table(file.cols, SortRows(file.rows)))
          /\ result' = Ok("load_data")
    /\ derived' = 0
    /\ UNCHANGED <<file, pivot_tables, output>>

-----------------------------------------------------------------------------
(* calculate_derived_columns                                               *)

\* position of the preceding row of the same instrument, 0 when there is
\* none; groupby drops rows whose key is null, so such a row has none either
PrevInGroup(rows, i) ==
    LET before == {j \in 1..(i - 1) : rows[j].name = rows[i].name}
    IN  IF rows[i].name = NoStr \/ before = {} THEN 0
        ELSE CHOOSE j \in before : \A k \in before : k <= j

\* mutant: shift(1) over the whole column, without the groupby
ShiftUngrouped(rows, vals, i) == IF i = 1 THEN NaN ELSE vals[i - 1]

\* df.groupby('Instrument Name')[col].shift(1), col given by its values
GroupShift(rows, vals, i) ==
    IF PrevInGroup(rows, i) = 0 THEN NaN ELSE vals[PrevInGroup(rows, i)]

\* mutant: the (sp != 0) guard left out
MonthlyStockReturnUnguarded(price, sp) ==
    IF NotNa(sp) THEN Sub(Div(price, sp), One) ELSE NaN

\* np.where(notna(sp) & (sp != 0), price / sp - 1, nan): both branches are
\* evaluated on the whole column, then one is selected
MonthlyStockReturn(price, sp) ==
    IF NotNa(sp) /\ sp # Zero THEN Sub(Div(price, sp), One) ELSE NaN

\* max_value > 1 for the non-null values of the whole 'Holding (%)' column
IsPercentageForm(hold) ==
    /\ \E i \in DOMAIN hold : NotNa(hold[i])
    /\ \E i \in DOMAIN hold :
          /\ NotNa(hold[i])
          /\ \A j \in DOMAIN hold : NotNa(hold[j]) => ~Gt(AbsNum(hold[j]), AbsNum(hold[i]))
          /\ Gt(AbsNum(hold[i]), One)

\* mutant: the conversion decided row by row
HoldingDecimalPerRow(hold) ==
    [i \in DOMAIN hold |->
        IF Gt(AbsNum(hold[i]), One) THEN Div(hold[i], <<100, 1>>) ELSE hold[i]]

\* holding_values after the conversion decision
HoldingDecimal(hold) ==
    IF IsPercentageForm(hold)
    THEN [i \in DOMAIN hold |-> Div(hold[i], <<100, 1>>)]
    ELSE hold

\* 'Start wt%': the shifted converted holding, NaN filled with 0
StartWt(rows, hd, i) == FillNa(GroupShift(rows, hd, i), Zero)

\* mutant: the final fillna(0) left out
ContributionUnfilled(wt, ret) == Mul(wt, ret)

\* 'Stock Monthly Contribution %': the product, NaN filled with 0
Contribution(wt, ret) == FillNa(Mul(wt, ret), Zero)

\* the 'Holding (%)' column
HoldingColumn(t) == [i \in 1..Len(t.rows) |-> t.rows[i].holding]

\* the rows with their four derived cells, hd being the converted holdings
DerivedRows(t, hd) ==
    LET rows == t.rows
        n == Len(rows)
        price == [i \in 1..n |-> rows[i].price]
        sp == [i \in 1..n |-> GroupShift(rows, price, i)]
        ret == [i \in 1..n |-> MonthlyStockReturn(price[i], sp[i])]
        wt == [i \in 1..n |-> StartWt(rows, hd, i)]
    IN  [i \in 1..n |->
            [rows[i] EXCEPT !.startPrice = sp[i], !.ret = ret[i],
                            !.startWt = wt[i],
                            !.contrib = Contribution(wt[i], ret[i])]]

\* the column calculate_derived_columns writes the converted holdings to
\* and drops again
HOLDING_TEMP == "_holding_decimal_temp"

\* mutant: the converted holdings written back to 'Holding (%)'
DerivedTableInPlace(t) ==
    LET hd == HoldingDecimal(HoldingColumn(t))
        rows == DerivedRows(t, hd)
    IN  Table((t.cols \cup CALCULATED_COLUMNS) \ {HOLDING_TEMP},
              [i \in 1..Len(rows) |-> [rows[i] EXCEPT !.holding = hd[i]]])

\* the table calculate_derived_columns leaves in self.df: the temporary
\* column is dropped, also when the table had a column of that name before
\* the call, and 'Holding (%)' keeps its values
DerivedTable(t) ==
    Table((t.cols \cup CALCULATED_COLUMNS) \ {HOLDING_TEMP},
          DerivedRows(t, HoldingDecimal(HoldingColumn(t))))

\* The input files of the model always carry 'Instrument Name', 'Price' and
\* 'Holding (%)', so the KeyError a table without them raises is not modelled.
CalculateDerivedColumns ==
    /\ \/ /\ df = None
          /\ result' = Raised("calculate_derived_columns", "ValueError",
                              "Data must be loaded before calculating derived columns")
          /\ UNCHANGED <<df, derived>>
       \/ /\ df # None
          /\ df' = Some(DerivedTable(df[1]))
          /\ derived' = IF derived < MaxDerived THEN derived + 1 ELSE derived
          /\ result' = Ok("calculate_derived_columns")
    /\ UNCHANGED <<file, pivot_tables, output>>

-----------------------------------------------------------------------------
(* create_pivot_tables                                                     *)

DimValue(r, dim) ==
    CASE dim = "Instrument Name" -> r.name
      [] dim = "Instrument Sector" -> r.sector
      [] dim = "Instrument SEBI Mcap Type" -> r.mcapType

\* sum of the non-null values at the positions S (Series.sum skips NaN)
RECURSIVE SumAt(_, _)
SumAt(vals, S) ==
    IF S = {} THEN Zero
    ELSE LET i == CHOOSE k \in S : TRUE
         IN  Add(FillNa(vals[i], Zero), SumAt(vals, S \ {i}))

\* rows the groupby of pivot_table keeps: both keys non-null
Keyed(t, dim) ==
    {i \in 1..Len(t.rows) :
        DimValue(t.rows[i], dim) # NoStr /\ t.rows[i].monthEnd # NaT}

\* mutant: the margins computed from every row that has a value
MarginDataUnfiltered(t, dim) ==
    {i \in 1..Len(t.rows) : NotNa(t.rows[i].contrib)}

\* rows the margins are computed from: data[data.notna().all(axis=1)]
MarginData(t, dim) ==
    {i \in Keyed(t, dim) : NotNa(t.rows[i].contrib)}

\* pd.pivot_table(df, values='Stock Monthly Contribution %', index=dim,
\* columns='Month End', aggfunc='sum', fill_value=0, margins=True,
\* margins_name='Grand Total'); index and columns are sets, listed in their
\* natural order with the total last
PivotTable(t, dim) ==
    LET rows == t.rows
        vals == [i \in 1..Len(rows) |-> rows[i].contrib]
        keyed == Keyed(t, dim)
        data == MarginData(t, dim)
        index == {DimValue(rows[i], dim) : i \in keyed}
        columns == {rows[i].monthEnd : i \in keyed}
    IN  [ dim |-> dim,
          index |-> index,
          columns |-> columns,
          cell |-> [k \in index \X columns |->
                      SumAt(vals, {i \in keyed : DimValue(rows[i], dim) = k[1]
                                                 /\ rows[i].monthEnd = k[2]})],
          totalCol |-> [r \in index |->
                      IF {i \in data : DimValue(rows[i], dim) = r} = {} THEN NaN
                      ELSE SumAt(vals, {i \in data : DimValue(rows[i], dim) = r})],
          totalRow |-> [c \in columns |->
                      SumAt(vals, {i \in data : rows[i].monthEnd = c})],
          grand |-> SumAt(vals, data) ]

PivotTables(t) ==
    [ company |-> PivotTable(t, "Instrument Name"),
      sector |-> PivotTable(t, "Instrument Sector"),
      market_cap |-> PivotTable(t, "Instrument SEBI Mcap Type") ]

\* some pivot has no row with both keys: pivot_table then has no piece to
\* put margins on
SomePivotEmpty(t) ==
    \E dim \in {"Instrument Name", "Instrument Sector", "Instrument SEBI Mcap Type"} :
        Keyed(t, dim) = {}

\* The input files of the model always carry the three dimension columns and
\* 'Month End', so the KeyError of a table without them is not modelled.  On
\* a table where a pivot has no keyed row the outcome depends on the pandas
\* build: either pivot_table raises (concat of no pieces) or it returns a
\* table holding only the totals.
CreatePivotTables ==
    /\ \/ /\ df = None
          /\ result' = Raised("create_pivot_tables", "ValueError",
                              "Data must be loaded before creating pivot tables")
          /\ UNCHANGED pivot_tables
       \/ /\ df # None
          /\ "Stock Monthly Contribution %" \notin df[1].cols
          /\ result' = Raised("create_pivot_tables", "ValueError",
                              "Derived columns must be calculated first")
          /\ UNCHANGED pivot_tables
       \/ /\ df # None
          /\ "Stock Monthly Contribution %" \in df[1].cols
          /\ SomePivotEmpty(df[1])
          /\ result' = Raised("create_pivot_tables", "ValueError",
                              "No objects to concatenate")
          /\ UNCHANGED pivot_tables
       \/ /\ df # None
          /\ "Stock Monthly Contribution %" \in df[1].cols
          /\ pivot_tables' = Some(PivotTables(df[1]))
          /\ result' = Ok("create_pivot_tables")
    /\ UNCHANGED <<file, df, output, derived>>

-----------------------------------------------------------------------------
(* save_output                                                             *)

\* what the output file holds after a successful write: the four sheets,
\* and whether _format_percentage_columns applied the formats
Artifact(t, pts, formatted) ==
    [data |-> t, pivots |-> pts, formatted |-> formatted]

\* mutant: a failure in _format_percentage_columns reaches the caller
SaveResultFormatRaises(formatted) ==
    IF formatted THEN Ok("save_output")
    ELSE Raised("save_output", "Exception", "could not format percentage columns")

\* what save_output reports once the four sheets are written:
\* _format_percentage_columns catches every exception of the formatting and
\* logs it as a warning, and save_output returns the output path either way
SaveResult(formatted) ==
    [Ok("save_output") EXCEPT
        !.msg = IF formatted THEN ""
                ELSE "warning: could not format percentage columns"]

\* the exceptions a failing write raises; both except clauses of save_output
\* log the exception and re-raise it as it is
WriteFailures == {"PermissionError", "OSError"}

SaveOutput ==
    /\ \/ /\ df = None
          /\ result' = Raised("save_output", "ValueError", "No data to save")
          /\ UNCHANGED output
       \/ /\ df # None
          /\ pivot_tables = None
          /\ result' = Raised("save_output", "ValueError", "Pivot tables not created")
          /\ UNCHANGED output
       \/ /\ df # None
          /\ pivot_tables # None
          /\ \E kind \in WriteFailures :
                result' = Raised("save_output", kind, "cannot write")
          /\ \E o \in {output, None} : output' = o
       \/ /\ df # None
          /\ pivot_tables # None
          /\ \E formatted \in BOOLEAN :
                /\ output' = Some(Artifact(df[1], pivot_tables[1], formatted))
                /\ result' = SaveResult(formatted)
    /\ UNCHANGED <<file, df, pivot_tables, derived>>

-----------------------------------------------------------------------------
(* Input files.                                                            *)

CONTRIB == "Stock Monthly Contribution %"

\* column sets of the files: complete, complete with a contribution column
\* of its own, and with two required columns missing
ColumnSets ==
    { REQUIRED_COLUMNS,
      REQUIRED_COLUMNS \cup {CONTRIB},
      REQUIRED_COLUMNS \ {"Scheme Code", "NSE Symbol"} }

\* pipeline family: two instruments, two months, the price rising with the
\* month; a contribution column of the file's own holds 1/2 in every row
PipelineRows(cols) ==
    { MkRow(nm, mo, mo, One, "Fin", "Large", <<mo, 1>>,
            IF CONTRIB \in cols THEN <<1, 2>> ELSE NaN) :
        nm \in {"A", "B"}, mo \in {1, 2} }

PipelineFiles ==
    UNION { {Table(cols, rows) : rows \in SeqsUpTo(PipelineRows(cols), MaxRows)} :
            cols \in ColumnSets }

\* a file lacking required columns, for the families below
IncompleteFile ==
    Table(REQUIRED_COLUMNS \ {"Scheme Code"},
          <<MkRow("B", 2, 2, One, "Fin", "Large", <<2, 1>>, NaN),
            MkRow("A", 1, 1, One, "Fin", "Large", One, NaN)>>)

\* the sequences of at most n distinct codes <= top, in decreasing order
RECURSIVE DescCodes(_, _)
DescCodes(n, top) ==
    IF n = 0 THEN {<<>>}
    ELSE {<<>>} \cup UNION { {<<c>> \o s : s \in DescCodes(n - 1, c - 1)} : c \in 1..top }

\* derivation family: instrument A in months 1 and 2 and instrument B in
\* month 1; weights null, <= 1 and > 1 (200 stays > 1 once divided by 100);
\* prices null, zero and non-zero
DeriveKeys == << <<"A", 1>>, <<"A", 2>>, <<"B", 1>> >>

DeriveHoldings == <<NaN, One, <<200, 1>> >>

DerivePrices == <<NaN, Zero, <<2, 1>> >>

DeriveRowCount == Len(DeriveKeys) * Len(DeriveHoldings) * Len(DerivePrices)

\* the c-th row of the family, c in 1..DeriveRowCount
DeriveRowAt(c) ==
    MkRow(DeriveKeys[((c - 1) \div 9) + 1][1],
          DeriveKeys[((c - 1) \div 9) + 1][2],
          DeriveKeys[((c - 1) \div 9) + 1][2],
          DeriveHoldings[(((c - 1) \div 3) % 3) + 1],
          "Fin", "Large",
          DerivePrices[((c - 1) % 3) + 1],
          NaN)

\* files with one column beyond the required ones; the rows of the model
\* carry the cells of the required and derived columns only
ExtraColumnFiles ==
    {Table(REQUIRED_COLUMNS \cup {extra}, IncompleteFile.rows) :
        extra \in {"Notes", HOLDING_TEMP}}

\* the files list distinct rows from the last instrument and month to the
\* first, so that load_data's sort reorders every file of two rows or more
DeriveFiles ==
    {Table(REQUIRED_COLUMNS, [i \in 1..Len(cs) |-> DeriveRowAt(cs[i])]) :
        cs \in DescCodes(MaxRowsDerive, DeriveRowCount)}
        \cup {IncompleteFile} \cup ExtraColumnFiles

\* aggregation family: two instruments (A in sector Fin, B in sector IT, both
\* Large caps) over two months; a row may lack its month-end date or its
\* sector.  The price doubles from month 1 to month 2 and is three times as
\* high in a row that lacks a cell.  A holds 1 (%), B holds 200 (%).
PivotRow(nm, mo, lacks) ==
    MkRow(nm, mo,
          IF lacks = "Month End" THEN NaT ELSE mo,
          IF nm = "A" THEN One ELSE <<200, 1>>,
          IF lacks = "Instrument Sector" THEN NoStr
          ELSE IF nm = "A" THEN "Fin" ELSE "IT",
          "Large",
          <<mo * (IF lacks = "" THEN 1 ELSE 3), 1>>,
          NaN)

PivotLacks == <<"", "Month End", "Instrument Sector">>

PivotRowCount == 2 * 2 * Len(PivotLacks)

\* the c-th row of the family, c in 1..PivotRowCount
PivotRowAt(c) ==
    PivotRow(IF (c - 1) \div 6 = 0 THEN "A" ELSE "B",
             (((c - 1) \div 3) % 2) + 1,
             PivotLacks[((c - 1) % 3) + 1])

\* rows listed as in the derivation family
PivotFiles ==
    {Table(REQUIRED_COLUMNS, [i \in 1..Len(cs) |-> PivotRowAt(cs[i])]) :
        cs \in DescCodes(MaxRowsPivot, PivotRowCount)}
        \cup {IncompleteFile}

Init0 ==
    /\ df = None
    /\ pivot_tables = None
    /\ output = None
    /\ derived = 0
    /\ result = Ok("__init__")

Init == file \in PipelineFiles /\ Init0

InitDerive == file \in DeriveFiles /\ Init0

InitPivot == file \in PivotFiles /\ Init0

Next == LoadData \/ CalculateDerivedColumns \/ CreatePivotTables \/ SaveOutput

NextDerive == LoadData \/ CalculateDerivedColumns

NextPivot == LoadData \/ CalculateDerivedColumns \/ CreatePivotTables

Spec == Init /\ [][Next]_vars

SpecDerive == InitDerive /\ [][NextDerive]_vars

SpecPivot == InitPivot /\ [][NextPivot]_vars

-----------------------------------------------------------------------------
(* Properties of calculate_derived_columns (SpecDerive).                   *)

\* the last load_data validated and sorted the table now in self.df
LoadedOk == df # None /\ df[1].rows # <<>> /\ MissingColumns(df[1]) = {}

\* calculate_derived_columns has completed on the table now in self.df
Derived == df # None /\ derived >= 1

Rows == df[1].rows

\* row i is the first row of its instrument in period order
FirstOfInstrument(i) ==
    \A j \in 1..Len(Rows) :
        (j # i /\ Rows[j].name = Rows[i].name) =>
            \/ Rows[j].month > Rows[i].month
            \/ Rows[j].month = Rows[i].month /\ j > i

\* C3: after load_data and calculate_derived_columns the first row of every
\* instrument, in period order, has a null Start Price, Start wt% = 0 and
\* Stock Monthly Contribution % = 0.
C3_FirstRowOfInstrument ==
    (LoadedOk /\ Derived) =>
        \A i \in 1..Len(Rows) :
            FirstOfInstrument(i) =>
                /\ IsNaN(Rows[i].startPrice)
                /\ Rows[i].startWt = Zero
                /\ Rows[i].contrib = Zero

\* two instruments, each with a first row, one of them followed by a row
\* that has a prior price and a prior weight
C3_Witness ==
    /\ LoadedOk /\ Derived
    /\ \E i, j \in 1..Len(Rows) :
          /\ Rows[i].name # Rows[j].name
          /\ FirstOfInstrument(i) /\ FirstOfInstrument(j)
    /\ \E k \in 1..Len(Rows) :
          ~FirstOfInstrument(k) /\ NotNa(Rows[k].startPrice) /\ Rows[k].startWt # Zero

\* C4: after calculate_derived_columns a row with a defined non-zero Start
\* Price has Monthly Stock Return% = Price / Start Price - 1 (null when the
\* Price is null), a row with a null or zero Start Price has a null return,
\* and the call on a loaded table never fails.
C4_MonthlyReturn ==
    /\ Derived =>
          \A i \in 1..Len(Rows) :
              LET r == Rows[i]
              IN  IF NotNa(r.startPrice) /\ r.startPrice # Zero
                  THEN IF NotNa(r.price)
                       THEN /\ IsFinite(r.ret)
                            /\ Mul(Add(r.ret, One), r.startPrice) = r.price
                       ELSE IsNaN(r.ret)
                  ELSE IsNaN(r.ret)
    /\ (result.op = "calculate_derived_columns" /\ df # None) => result.kind = "ok"

\* a row after a zero price (null return, no failure) beside a row with a
\* non-zero return
C4_Witness ==
    /\ Derived /\ result = Ok("calculate_derived_columns")
    /\ \E i \in 1..Len(Rows) :
          Rows[i].startPrice = Zero /\ Rows[i].price = <<2, 1>> /\ IsNaN(Rows[i].ret)
    /\ \E i \in 1..Len(Rows) :
          Rows[i].startPrice = <<2, 1>> /\ Rows[i].ret = <<-1, 1>>

\* C5: after calculate_derived_columns every row's contribution is
\* Start wt% * Monthly Stock Return% when the return is defined and 0 when
\* it is null; no contribution is null.
C5_Contribution ==
    Derived =>
        \A i \in 1..Len(Rows) :
            LET r == Rows[i]
            IN  /\ NotNa(r.contrib)
                /\ NotNa(r.ret) => r.contrib = Mul(r.startWt, r.ret)
                /\ IsNaN(r.ret) => r.contrib = Zero

\* a row with a prior weight but a null return (contribution 0) beside a
\* row with a non-zero contribution
C5_Witness ==
    /\ Derived
    /\ \E i \in 1..Len(Rows) :
          Rows[i].startWt # Zero /\ IsNaN(Rows[i].ret) /\ Rows[i].contrib = Zero
    /\ \E i \in 1..Len(Rows) :
          NotNa(Rows[i].ret) /\ Rows[i].contrib # Zero

\* some non-null weight of the whole table exceeds 1 in absolute value
SomeWeightAboveOne ==
    \E i \in 1..Len(Rows) : Gt(AbsNum(Rows[i].holding), One)

\* row p is the row preceding row i within i's instrument
Precedes(p, i) ==
    /\ p < i
    /\ Rows[p].name = Rows[i].name
    /\ \A k \in (p + 1)..(i - 1) : Rows[k].name # Rows[i].name

\* C6: one table-wide decision: if some weight exceeds 1 in absolute value,
\* every row's Start wt% is the preceding row's weight divided by 100, also
\* when that weight is at most 1; otherwise no weight is divided.
C6_TableWideNormalization ==
    Derived =>
        \A i, p \in 1..Len(Rows) :
            (Precedes(p, i) /\ NotNa(Rows[p].holding)) =>
                IF SomeWeightAboveOne
                THEN Mul(Rows[i].startWt, <<100, 1>>) = Rows[p].holding
                ELSE Rows[i].startWt = Rows[p].holding

\* a weight of 1 divided by 100 because another row holds 200
C6_Witness ==
    /\ Derived
    /\ \E i, p, q \in 1..Len(Rows) :
          /\ Precedes(p, i)
          /\ Rows[p].holding = One
          /\ Rows[q].holding = <<200, 1>>
          /\ Rows[i].startWt = <<1, 100>>

\* C7: calculate_derived_columns on an already-derived table leaves the
\* table, and so the four derived columns of every row, as they were.
C7_Idempotent ==
    [][(Derived /\ result'.op = "calculate_derived_columns" /\ result'.kind = "ok")
          => df' = df]_vars

\* a third derivation of a table whose weights were divided by 100
C7_Witness ==
    /\ Derived /\ derived >= 3
    /\ result = Ok("calculate_derived_columns")
    /\ \E i \in 1..Len(Rows) : Rows[i].startWt = <<2, 1>>

-----------------------------------------------------------------------------
(* Properties of create_pivot_tables (SpecPivot).                          *)

Dimensions ==
    {"Instrument Name", "Instrument Sector", "Instrument SEBI Mcap Type"}

\* the CrossTab of pts over dimension dim
PivotOf(pts, dim) ==
    CASE dim = "Instrument Name" -> pts.company
      [] dim = "Instrument Sector" -> pts.sector
      [] dim = "Instrument SEBI Mcap Type" -> pts.market_cap

\* sum of f over the keys K
RECURSIVE SumCells(_, _)
SumCells(f, K) ==
    IF K = {} THEN Zero
    ELSE LET k == CHOOSE x \in K : TRUE
         IN  Add(f[k], SumCells(f, K \ {k}))

\* sum of 'Stock Monthly Contribution %' over every row of the table
TableContribution(t) ==
    SumCells([i \in 1..Len(t.rows) |-> t.rows[i].contrib], 1..Len(t.rows))

\* C1: in each of the three CrossTabs the grand-total cell equals the sum of
\* 'Stock Monthly Contribution %' over every row of the table, null
\* dimension values and null month-ends included.  Stated for the tables on
\* which every pivot has a keyed row, where pivot_table's outcome does not
\* depend on the pandas build.
C1_GrandTotalIsTableSum ==
    (result = Ok("create_pivot_tables") /\ Derived /\ ~SomePivotEmpty(df[1])) =>
        \A dim \in Dimensions :
            PivotOf(pivot_tables[1], dim).grand = TableContribution(df[1])

\* C2: in every CrossTab each cell of the Grand Total row is the sum of its
\* period column over the non-total rows, and each cell of the Grand Total
\* column is the sum of its row over the non-total period columns.
C2_TotalsAreSums ==
    pivot_tables # None =>
        \A dim \in Dimensions :
            LET pt == PivotOf(pivot_tables[1], dim)
            IN  /\ \A c \in pt.columns :
                      pt.totalRow[c] = SumCells(pt.cell, {<<r, c>> : r \in pt.index})
                /\ \A r \in pt.index :
                      pt.totalCol[r] = SumCells(pt.cell, {<<r, c>> : c \in pt.columns})

\* a Company Pivot built from a table with rows the pivot leaves out, in
\* which instrument A has non-zero cells in two period columns and
\* instrument B a non-zero cell in one of them
C2_Witness ==
    /\ pivot_tables # None
    /\ result = Ok("create_pivot_tables")
    /\ LET pt == pivot_tables[1].company
       IN  /\ pt.index = {"A", "B"}
           /\ \E c, d \in pt.columns :
                 /\ c # d
                 /\ pt.cell[<<"A", c>>] # Zero
                 /\ pt.cell[<<"A", d>>] # Zero
                 /\ pt.cell[<<"B", c>>] # Zero
                 /\ pt.totalRow[c] = Add(pt.cell[<<"A", c>>], pt.cell[<<"B", c>>])
                 /\ pt.totalCol["A"] = Add(pt.cell[<<"A", c>>], pt.cell[<<"A", d>>])
    /\ \E i \in 1..Len(Rows) : Rows[i].sector = NoStr \/ Rows[i].monthEnd = NaT

-----------------------------------------------------------------------------
(* Properties of the call sequences (Spec).                                *)

C9_PivotNeedsDerivation ==
    (/\ result.op = "create_pivot_tables"
     /\ derived = 0
     /\ df # None => ~SomePivotEmpty(df[1])) => result.kind # "ok"

\* C10: whenever save_output succeeds, the table it writes holds the four
\* derived columns and the three CrossTabs it writes are those of that table.
\* Stated for input files that carry no derived column of their own and for
\* the written tables on which every pivot has a keyed row.
C10_SavedArtifactConsistent ==
    (/\ result.op = "save_output"
     /\ result.kind = "ok"
     /\ file.cols \cap CALCULATED_COLUMNS = {}
     /\ ~SomePivotEmpty(output[1].data)) =>
        /\ CALCULATED_COLUMNS \subseteq output[1].data.cols
        /\ output[1].pivots = PivotTables(output[1].data)

\* what result holds after a write of the destination that failed
WriteFailed == result.op = "save_output" /\ result.msg = "cannot write"

SortedByKey(rows) ==
    \A i, j \in 1..Len(rows) : i < j => KeyLE(rows[i], rows[j])

\* C12: whenever the processor holds a table, also after a load_data that
\* failed, the table has the 11 required columns and its rows are sorted by
\* Instrument Name and Month; after a load_data that failed the processor
\* holds no table.  (The rows of the model are a sequence, so their positions
\* are contiguous by construction.)
C12_HeldTableIsValid ==
    /\ df # None =>
          /\ REQUIRED_COLUMNS \subseteq df[1].cols
          /\ SortedByKey(df[1].rows)
    /\ (result.op = "load_data" /\ result.kind # "ok") => df = None

\* the rows of instrument nm, in table order
RECURSIVE RowsOf(_, _)
RowsOf(rows, nm) ==
    IF rows = <<>> THEN <<>>
    ELSE (IF rows[1].name = nm THEN <<rows[1]>> ELSE <<>>) \o RowsOf(Tail(rows), nm)

\* the table now in self.df without the rows of the other instruments
OwnTable(nm) == Table(df[1].cols, RowsOf(Rows, nm))

InstrumentNames == {Rows[i].name : i \in 1..Len(Rows)}

PriceFields(rows) == [i \in 1..Len(rows) |-> <<rows[i].startPrice, rows[i].ret>>]

WeightFields(rows) == [i \in 1..Len(rows) |-> <<rows[i].startWt, rows[i].contrib>>]

\* the table and instrument nm's rows alone reach the same conversion decision
SameDecision(nm) ==
    IsPercentageForm(HoldingColumn(OwnTable(nm))) = IsPercentageForm(HoldingColumn(df[1]))

\* C13 (as the code has it): 'Start Price' and 'Monthly Stock Return%' of an
\* instrument's rows are the same in the table and in the table without the
\* rows of the other instruments; 'Start wt%' and 'Stock Monthly
\* Contribution %' are the same too when both tables reach the same
\* table-wide conversion decision for 'Holding (%)'.
C13_OwnRowsAndDecision ==
    Derived =>
        \A nm \in InstrumentNames :
            LET own == DerivedTable(OwnTable(nm)).rows
            IN  /\ PriceFields(RowsOf(Rows, nm)) = PriceFields(own)
                /\ SameDecision(nm) =>
                      WeightFields(RowsOf(Rows, nm)) = WeightFields(own)

\* two instruments, one of them in percentage form on its own and with a row
\* that has a prior price and a prior weight
C13_Witness ==
    /\ LoadedOk /\ Derived
    /\ \E nm \in InstrumentNames :
          /\ InstrumentNames # {nm}
          /\ SameDecision(nm)
          /\ IsPercentageForm(HoldingColumn(OwnTable(nm)))
          /\ \E i \in 1..Len(Rows) :
                /\ Rows[i].name = nm
                /\ NotNa(Rows[i].startPrice)
                /\ Rows[i].startWt # Zero

\* C13 (as stated): the four derived fields of an instrument's rows are the
\* same in the table and in the table without the rows of the other
\* instruments.
C13_OwnRowsOnly ==
    Derived =>
        \A nm \in InstrumentNames :
            LET own == DerivedTable(OwnTable(nm)).rows
            IN  /\ PriceFields(RowsOf(Rows, nm)) = PriceFields(own)
                /\ WeightFields(RowsOf(Rows, nm)) = WeightFields(own)

\* row r with the cells of the four derived columns blanked
InputCells(r) ==
    [r EXCEPT !.startPrice = NaN, !.ret = NaN, !.startWt = NaN, !.contrib = NaN]

\* C14: a calculate_derived_columns that completes leaves the number and the
\* order of the rows, every cell outside the four derived columns (so
\* 'Holding (%)' too) and the presence of every column outside the four
\* derived ones, whatever its name, as they were before the call.
C14_OnlyDerivedColumnsChange ==
    [][(/\ df # None
        /\ result'.op = "calculate_derived_columns"
        /\ result'.kind = "ok") =>
          /\ Len(df'[1].rows) = Len(df[1].rows)
          /\ \A i \in 1..Len(df[1].rows) :
                InputCells(df'[1].rows[i]) = InputCells(df[1].rows[i])
          /\ df'[1].cols \ CALCULATED_COLUMNS = df[1].cols \ CALCULATED_COLUMNS]_vars

=============================================================================
